---------------------------- MODULE Spec2Model ----------------------------
(***************************************************************************)
(* ConcurrentSecret (src/src/index.js) running against the secret manager  *)
(* server (src/unnamed/part_000, lines 139-452).                           *)
(*                                                                         *)
(* One secret, two independently constructed ConcurrentSecret instances    *)
(* ("A" and "B").  Instance A can be driven by two asynchronous callers    *)
(* (a1, a2), instance B by one (b1).  Spec runs one caller on each         *)
(* instance (a1, b1); SpecSameInstance runs both callers of instance A.    *)
(* Every `await` of the source is a point where a caller is suspended: a   *)
(* remote request is in flight with the arguments captured when it was     *)
(* issued.  An action is the server handler answering that request         *)
(* together with the continuation of the async function, which runs up to  *)
(* its next `await`.                                                       *)
(*                                                                         *)
(* Time is a discrete clock; timestamps are clock values, Absent models a  *)
(* missing annotation (new Date(undefined) is an Invalid Date).  An etag   *)
(* is a number: the server draws a fresh random etag on every write, the   *)
(* model takes the next unused number.                                     *)
(***************************************************************************)
EXTENDS Integers, Sequences, FiniteSets, TLC

\* ---- bounds of the model ------------------------------------------------
MaxTime == 2          \* the clock runs 0..MaxTime
MaxCalls == 3         \* public operations started, over all callers
GracePeriodMs == 1    \* options.gracePeriodMs, in clock ticks
MaxForeignEtag == 4   \* other parties write while fewer writes have been accepted

MaxRefreshes == 2     \* runs of the cache's fetchMethod started
MaxForeignAdds == 1   \* versions added by another writer
MaxFetches == 2       \* calls of SecretsCache.get and SecretsCache.update
ManyVersions == 9     \* the longest version list a secret starts with

\* the CachedSecret objects a SecretsCache can create: the one made by set()
\* or by a miss, and one clone per refresh
EntryNames == <<"E1", "E2", "E3", "E4", "E5", "E6">>
Entries == {EntryNames[k] : k \in 1..(MaxRefreshes + 1)}
\* the callers of SecretsCache.get and SecretsCache.update
Getters == {"g1", "g2"}

\* A CachedSecret is a ConcurrentSecret.  Only the object the cache holds for
\* the key, or constructs for it, is ever refreshed, and the refresh is its
\* only caller: instance "E" is that object, caller "e" its refresh.
CacheInst == "E"
CacheCaller == "e"

Inst == {"A", "B", CacheInst}
Calls == {"a1", "a2", "b1", CacheCaller}
InstOf(c) == IF c = CacheCaller THEN CacheInst ELSE IF c = "b1" THEN "B" ELSE "A"

Payloads == {"p"}     \* what a producer can return as a string
Absent == -1          \* annotation not present / undefined

\* ---- state ----------------------------------------------------------------
VARIABLES
  db,                 \* server: [secret |-> [etag, annotations, versionDestroyTtl], versions]
  now,                \* the clock (new Date())
  secret,             \* this.secret of each instance
  pendingSecret,      \* this.pendingSecret of each instance
  updatedVersionName, \* this.updatedVersionName of each instance, 0 = undefined
  callers,            \* the callers of this run
  pc,                 \* where each caller is suspended
  op,                 \* the public operation each caller is running
  loc,                \* the locals of each caller's async functions
  lastSettled,        \* per instance: the operation that settled last
  wonEtags,           \* the etags with which a lock() write has succeeded
  calls,              \* number of operations started
  cache               \* the SecretsCache: its entry objects, slot, fetch in flight, promises

vars == <<db, now, secret, pendingSecret, updatedVersionName, callers,
          pc, op, loc, lastSettled, wonEtags, calls, cache>>

\* ---- values ---------------------------------------------------------------
NoAnnotations == [foo |-> "bar", locked_at |-> Absent, updated_at |-> Absent]
NoSecret == [etag |-> 0, annotations |-> NoAnnotations]
\* a promise of getSecret: "none" (undefined), "pending" (created by caller
\* `by`, not answered yet) or "resolved" with the secret read
NoPromise == [state |-> "none", by |-> "none", secret |-> NoSecret]
NoVersion == [name |-> 0, state |-> "NONE", scheduledDestroyTime |-> FALSE]
NoData == [kind |-> "none", data |-> ""]
NoLoc == [promise |-> NoPromise, secret |-> NoSecret, req |-> NoSecret,
          latestVersion |-> NoVersion, secretData |-> NoData,
          newVersion |-> 0, err |-> "none"]
NoOutcome == [op |-> "none", by |-> "none", status |-> "none", error |-> "none",
              secret |-> NoSecret, data |-> NoData, cached |-> FALSE]

\* ---- values of the cache ------------------------------------------------
NoValue == "undefined"          \* a value that is undefined or null
\* a CachedSecret object: value, versionName (0 = undefined, else the ordinal
\* of projects/../versions/<ordinal>) and whether it has an updateMethod
NoEntry == [alloc |-> FALSE, value |-> NoValue, versionName |-> 0,
            updateMethod |-> FALSE]
\* a time to live: none (the entry never expires), the one the cache was
\* constructed with, the one given to set(), or the one a refresh function
\* writes into fetcherOptions.options
NoTtl == "none"
\* the background fetch of the key: the promise `id` the cache holds while
\* fetchMethod runs on `obj` with staleValue `stale`; ttl is
\* fetcherOptions.options.ttl, which the resolved value is stored with
NoFetch == [running |-> FALSE, id |-> 0, stale |-> "none", obj |-> "none",
            phase |-> "none", len0 |-> 0, adds0 |-> 0, etag0 |-> 0,
            lockedAt0 |-> Absent, ttl |-> NoTtl, before |-> NoEntry]
\* what a caller of get()/update() holds: the promise it awaits and, once
\* settled, the entry object or the error; `after` is the fetch that had
\* settled last when the call was made
NoResult == [state |-> "idle", op |-> "none", promise |-> 0, entry |-> "none",
             error |-> "none", joined |-> FALSE, after |-> 0]
\* the fetch that settled last since the key was set: how it settled, the
\* stale object it started from and what that object held before
NoSettled == [id |-> 0, status |-> "none", entry |-> "none", error |-> "none",
              stale |-> "none", before |-> NoEntry]
NoCache == [entries |-> [e \in Entries |-> NoEntry],
            slot |-> "none",
            fetch |-> NoFetch,
            results |-> [g \in Getters |-> NoResult],
            settled |-> NoSettled,
            registered |-> FALSE,
            refreshes |-> 0,
            foreignAdds |-> 0,
            defaultTtl |-> NoTtl,
            ttl |-> NoTtl,
            expired |-> FALSE,
            direct |-> [which |-> "none", flag |-> FALSE, answer |-> "none",
                        kind |-> "none", error |-> "none"]]

\* what fn(...args) can do: return a string, return something Buffer.from()
\* does not take (undefined, null, {}, a boolean, a number), or throw
ProducerResults == {[kind |-> "string", data |-> p] : p \in Payloads}
                   \cup {[kind |-> "invalid", data |-> ""], [kind |-> "throws", data |-> ""]}

\* fn(...args) can also return an array of byte values or an array-like
\* object, which is neither a string nor a Buffer
ArrayResults == {[kind |-> "array", data |-> p] : p \in Payloads}

\* Buffer.from(secretData) throws a TypeError ("The first argument must be
\* ...") for a value that is no string, Buffer, array or array-like object
BufferFromThrows(r) == r.kind \notin {"string", "array"}

\* codes carried by the two errors of lock(): the server's etag mismatch and
\* the ConcurrentSecretError of the grace period check
FAILED_PRECONDITION == 9
ConcurrentSecretErrorCode == 9
ErrorCode(e) ==
  CASE e = "PreconditionFailed" -> FAILED_PRECONDITION
    [] e = "ConcurrentModification" -> ConcurrentSecretErrorCode

\* ---- server (fake secret manager) ----------------------------------------
Snapshot(d) == [etag |-> d.secret.etag, annotations |-> d.secret.annotations]

\* GetSecret answers a copy of the secret
GetSecret(d) == Snapshot(d)

EtagMismatchNever(reqEtag, etag) == FALSE
\* UpdateSecret: a request carrying an etag is refused when it is not the current one
EtagMismatch(reqEtag, etag) == reqEtag # 0 /\ reqEtag # etag

\* UpdateSecret with updateMask.paths = ['annotations']
UpdateSecret(d, req) ==
  IF EtagMismatch(req.etag, d.secret.etag)
  THEN [ok |-> FALSE, error |-> "PreconditionFailed", db |-> d, secret |-> NoSecret]
  ELSE LET s == [d.secret EXCEPT !.annotations = req.annotations,
                                 !.etag = d.secret.etag + 1]
           d2 == [d EXCEPT !.secret = s]
       IN [ok |-> TRUE, error |-> "none", db |-> d2, secret |-> Snapshot(d2)]

\* GetSecretVersion of versions/latest; name 0 is the NOT_FOUND answer
GetSecretVersion(d) ==
  IF Len(d.versions) = 0 THEN NoVersion
  ELSE LET v == d.versions[Len(d.versions)]
       IN [name |-> Len(d.versions), state |-> v.state,
           scheduledDestroyTime |-> v.scheduledDestroyTime]

AddSecretVersionBlank(d, data) ==
  [d EXCEPT !.versions = Append(@, [state |-> "ENABLED",
                                    scheduledDestroyTime |-> FALSE, data |-> ""])]

\* AddSecretVersion: the new version is named by its ordinal and is ENABLED
AddSecretVersion(d, data) ==
  [d EXCEPT !.versions = Append(@, [state |-> "ENABLED",
                                    scheduledDestroyTime |-> FALSE,
                                    data |-> data])]

\* DestroySecretVersion of version `name`
DestroySecretVersion(d, name) ==
  IF name \notin DOMAIN d.versions
  THEN [ok |-> FALSE, error |-> "NotFound", db |-> d]
  ELSE IF d.versions[name].state = "DESTROYED" \/ d.versions[name].scheduledDestroyTime
  THEN [ok |-> FALSE, error |-> "PreconditionFailed", db |-> d]
  ELSE IF d.secret.versionDestroyTtl
  THEN [ok |-> TRUE, error |-> "none",
        db |-> [d EXCEPT !.versions[name].state = "DISABLED",
                         !.versions[name].scheduledDestroyTime = TRUE]]
  ELSE [ok |-> TRUE, error |-> "none",
        db |-> [d EXCEPT !.versions[name].state = "DESTROYED"]]

\* ---- ConcurrentSecret ------------------------------------------------------
IsSet(s) == s.etag # 0

LockHeldNever(i) == FALSE
\* lock(): if (this.secret) return this.secret
LockHeld(i) == IsSet(secret[i])

WithinGracePeriodStrict(lockedAt, t) ==
  lockedAt # Absent /\ t < lockedAt + GracePeriodMs
WithinGracePeriodUnparsed(lockedAt, t) ==
  t <= lockedAt + GracePeriodMs
\* lock(): !isNaN(lockedAt) && now <= lockedAt + gracePeriodMs
WithinGracePeriod(lockedAt, t) ==
  lockedAt # Absent /\ t <= lockedAt + GracePeriodMs

LockRequestAlone(s, t) ==
  [etag |-> s.etag, annotations |-> [NoAnnotations EXCEPT !.foo = "", !.locked_at = t]]
\* lock(): { name, etag: secret.etag,
\*           annotations: { ...secret.annotations, locked_at: now } }
LockRequest(s, t) ==
  [etag |-> s.etag, annotations |-> [s.annotations EXCEPT !.locked_at = t]]

UnlockRequestKeeping(s) ==
  [etag |-> s.etag, annotations |-> s.annotations]
\* unlock(): const { locked_at, ...annotations } = secret.annotations;
\*           { name, etag: secret.etag, annotations }
UnlockRequest(s) ==
  [etag |-> s.etag, annotations |-> [s.annotations EXCEPT !.locked_at = Absent]]

\* the operation of caller c settles
Settled(c, o) ==
  /\ pc' = [pc EXCEPT ![c] = "idle"]
  /\ loc' = [loc EXCEPT ![c] = NoLoc]
  /\ lastSettled' = [lastSettled EXCEPT ![InstOf(c)] = [o EXCEPT !.by = c]]

Resolved(o, s, data, cached) ==
  [op |-> o, by |-> "none", status |-> "resolved", error |-> "none", secret |-> s,
   data |-> data, cached |-> cached]
Rejected(o, e) ==
  [op |-> o, by |-> "none", status |-> "rejected", error |-> e, secret |-> NoSecret,
   data |-> NoData, cached |-> FALSE]

\* optimisticUpdate settles after its finally block: a failure of the try
\* block is rethrown, otherwise the producer's result is returned
RotateOutcome(l) ==
  IF l.err # "none" THEN Rejected("optimisticUpdate", l.err)
  ELSE Resolved("optimisticUpdate", NoSecret, l.secretData, FALSE)

PrepareAlwaysReads(c) ==
  LET i == InstOf(c)
      p == [state |-> "pending", by |-> c, secret |-> NoSecret] IN
  /\ pendingSecret' = [pendingSecret EXCEPT ![i] = p]
  /\ loc' = [loc EXCEPT ![c].promise = p]
\* _prepare(): a pending read is shared, otherwise getSecret is issued
Prepare(c) ==
  LET i == InstOf(c) IN
  IF pendingSecret[i].state # "none"
  THEN /\ loc' = [loc EXCEPT ![c].promise = pendingSecret[i]]
       /\ UNCHANGED pendingSecret
  ELSE LET p == [state |-> "pending", by |-> c, secret |-> NoSecret] IN
       /\ pendingSecret' = [pendingSecret EXCEPT ![i] = p]
       /\ loc' = [loc EXCEPT ![c].promise = p]

\* a caller may start an operation
CanCall(c) ==
  /\ c \in callers
  /\ pc[c] = "idle"
  /\ calls < MaxCalls

\* lock() up to its first await, called directly (o = "lock") or as the
\* first statement of optimisticUpdate
StartLock(c, o) ==
  LET i == InstOf(c) IN
  /\ CanCall(c)
  /\ calls' = calls + 1
  /\ UNCHANGED cache
  /\ op' = [op EXCEPT ![c] = o]
  /\ IF LockHeld(i)
     THEN /\ IF o = "lock"
             THEN Settled(c, Resolved("lock", secret[i], NoData, TRUE))
             ELSE /\ pc' = [pc EXCEPT ![c] = "fn"]
                  /\ loc' = [loc EXCEPT ![c].secret = secret[i]]
                  /\ UNCHANGED lastSettled
          /\ UNCHANGED pendingSecret
     ELSE /\ Prepare(c)
          /\ pc' = [pc EXCEPT ![c] = "prepare"]
          /\ UNCHANGED lastSettled
  /\ UNCHANGED <<db, now, secret, updatedVersionName, callers, wonEtags>>

UnlockEntryKeepingRead(c, o, sec, l) ==
  LET i == InstOf(c) IN
  IF ~IsSet(sec)
  THEN /\ Settled(c, IF o = "unlock"
                     THEN Resolved("unlock", NoSecret, NoData, FALSE)
                     ELSE RotateOutcome(l))
       /\ secret' = [secret EXCEPT ![i] = sec]
       /\ UNCHANGED pendingSecret
  ELSE /\ secret' = [secret EXCEPT ![i] = NoSecret]
       /\ UNCHANGED pendingSecret
       /\ pc' = [pc EXCEPT ![c] = "unlock"]
       /\ loc' = [loc EXCEPT ![c] = [l EXCEPT !.req = UnlockRequest(sec)]]
       /\ UNCHANGED lastSettled

\* unlock() up to its await, called directly (o = "unlock") or from the
\* finally block of optimisticUpdate.  sec is this.secret when it runs, l the
\* caller's locals.
UnlockEntry(c, o, sec, l) ==
  LET i == InstOf(c) IN
  IF ~IsSet(sec)
  THEN /\ Settled(c, IF o = "unlock"
                     THEN Resolved("unlock", NoSecret, NoData, FALSE)
                     ELSE RotateOutcome(l))
       /\ secret' = [secret EXCEPT ![i] = sec]
       /\ UNCHANGED pendingSecret
  ELSE /\ secret' = [secret EXCEPT ![i] = NoSecret]
       /\ pendingSecret' = [pendingSecret EXCEPT ![i] = NoPromise]
       /\ pc' = [pc EXCEPT ![c] = "unlock"]
       /\ loc' = [loc EXCEPT ![c] =
                    [l EXCEPT !.req = UnlockRequest(sec)]]
       /\ UNCHANGED lastSettled

\* ---- actions ---------------------------------------------------------------
\* a caller calls lock()
CallLock(c) == StartLock(c, "lock")

\* a caller calls optimisticUpdate(fn)
CallOptimisticUpdate(c) == StartLock(c, "optimisticUpdate")

\* a caller calls unlock()
CallUnlock(c) ==
  /\ CanCall(c)
  /\ calls' = calls + 1
  /\ UNCHANGED cache
  /\ op' = [op EXCEPT ![c] = "unlock"]
  /\ UnlockEntry(c, "unlock", secret[InstOf(c)], loc[c])
  /\ UNCHANGED <<db, now, updatedVersionName, callers, wonEtags>>

\* the server answers the getSecret issued by caller c0: the promise made
\* by _prepare resolves for everyone who awaits it
GetSecretAnswered(c0) ==
  LET p == [state |-> "pending", by |-> c0, secret |-> NoSecret]
      q == [state |-> "resolved", by |-> c0, secret |-> GetSecret(db)]
  IN /\ pc[c0] = "prepare"
     /\ loc[c0].promise = p
     /\ loc' = [c \in Calls |-> IF loc[c].promise = p
                                THEN [loc[c] EXCEPT !.promise = q] ELSE loc[c]]
     /\ pendingSecret' = [i \in Inst |-> IF pendingSecret[i] = p THEN q
                                         ELSE pendingSecret[i]]
     /\ UNCHANGED <<db, now, secret, updatedVersionName, callers,
                    pc, op, lastSettled, wonEtags, calls, cache>>

\* lock() after `await this._prepare()`: the grace period check, then the
\* conditioned write is issued
LockCheck(c) ==
  /\ pc[c] = "prepare"
  /\ loc[c].promise.state = "resolved"
  /\ LET s == loc[c].promise.secret IN
     IF WithinGracePeriod(s.annotations.locked_at, now)
     THEN Settled(c, Rejected(op[c], "ConcurrentModification"))
     ELSE /\ pc' = [pc EXCEPT ![c] = "lock"]
          /\ loc' = [loc EXCEPT ![c].req = LockRequest(s, now)]
          /\ UNCHANGED lastSettled
  /\ UNCHANGED <<db, now, secret, pendingSecret, updatedVersionName,
                 callers, op, wonEtags, calls, cache>>

\* lock(): the conditioned write is answered
LockUpdated(c) ==
  /\ pc[c] = "lock"
  /\ LET i == InstOf(c)
         r == UpdateSecret(db, loc[c].req)
     IN /\ db' = r.db
        /\ IF r.ok
           THEN /\ secret' = [secret EXCEPT ![i] = r.secret]
                /\ wonEtags' = wonEtags \cup {loc[c].req.etag}
                /\ IF op[c] = "lock"
                   THEN Settled(c, Resolved("lock", r.secret, NoData, FALSE))
                   ELSE /\ pc' = [pc EXCEPT ![c] = "fn"]
                        /\ loc' = [loc EXCEPT ![c].secret = r.secret]
                        /\ UNCHANGED lastSettled
           ELSE /\ Settled(c, Rejected(op[c], r.error))
                /\ UNCHANGED <<secret, wonEtags>>
  /\ UNCHANGED <<now, pendingSecret, updatedVersionName, callers, op, calls, cache>>

\* optimisticUpdate: fn(...args) settles
Producer(c) ==
  /\ pc[c] = "fn"
  /\ \E r \in ProducerResults :
       IF r.kind = "throws"
       THEN UnlockEntry(c, "optimisticUpdate", secret[InstOf(c)],
                        [loc[c] EXCEPT !.err = "ProducerError"])
       ELSE /\ pc' = [pc EXCEPT ![c] = "getLatestVersion"]
            /\ loc' = [loc EXCEPT ![c].secretData = r]
            /\ UNCHANGED <<secret, pendingSecret, lastSettled>>
  /\ UNCHANGED <<db, now, updatedVersionName, callers, op, wonEtags, calls, cache>>

\* optimisticUpdate: getLatestVersion() is answered, Buffer.from(secretData)
\* is evaluated and addSecretVersion is issued
LatestVersionRead(c) ==
  /\ pc[c] = "getLatestVersion"
  /\ LET l == [loc[c] EXCEPT !.latestVersion = GetSecretVersion(db)] IN
     IF BufferFromThrows(l.secretData)
     THEN UnlockEntry(c, "optimisticUpdate", secret[InstOf(c)],
                      [l EXCEPT !.err = "TypeError"])
     ELSE /\ pc' = [pc EXCEPT ![c] = "addSecretVersion"]
          /\ loc' = [loc EXCEPT ![c] = l]
          /\ UNCHANGED <<secret, pendingSecret, lastSettled>>
  /\ UNCHANGED <<db, now, updatedVersionName, callers, op, wonEtags, calls, cache>>

\* the request of optimisticUpdate's write of updated_at
UpdatedAtRequest(l, t) ==
  [etag |-> l.secret.etag,
   annotations |-> [l.secret.annotations EXCEPT !.updated_at = t]]

ShouldDestroyWhenPresent(v) == v.name # 0
\* optimisticUpdate: destroy the version read as latest?
ShouldDestroy(v) ==
  v.name # 0 /\ v.state # "DESTROYED" /\ ~v.scheduledDestroyTime

\* optimisticUpdate: addSecretVersion is answered
VersionAdded(c) ==
  /\ pc[c] = "addSecretVersion"
  /\ db' = AddSecretVersion(db, loc[c].secretData.data)
  /\ updatedVersionName' = [updatedVersionName EXCEPT ![InstOf(c)] = Len(db'.versions)]
  /\ IF ShouldDestroy(loc[c].latestVersion)
     THEN /\ pc' = [pc EXCEPT ![c] = "destroySecretVersion"]
          /\ loc' = [loc EXCEPT ![c].newVersion = Len(db'.versions)]
     ELSE /\ pc' = [pc EXCEPT ![c] = "update"]
          /\ loc' = [loc EXCEPT ![c].newVersion = Len(db'.versions),
                                ![c].req = UpdatedAtRequest(loc[c], now)]
  /\ UNCHANGED <<now, secret, pendingSecret, callers, op, lastSettled,
                 wonEtags, calls, cache>>

\* optimisticUpdate: destroySecretVersion is answered
VersionDestroyed(c) ==
  /\ pc[c] = "destroySecretVersion"
  /\ LET r == DestroySecretVersion(db, loc[c].latestVersion.name) IN
     /\ db' = r.db
     /\ IF r.ok
        THEN /\ pc' = [pc EXCEPT ![c] = "update"]
             /\ loc' = [loc EXCEPT ![c].req = UpdatedAtRequest(loc[c], now)]
             /\ UNCHANGED <<secret, pendingSecret, lastSettled>>
        ELSE UnlockEntry(c, "optimisticUpdate", secret[InstOf(c)],
                         [loc[c] EXCEPT !.err = r.error])
  /\ UNCHANGED <<now, updatedVersionName, callers, op, wonEtags, calls, cache>>

\* optimisticUpdate: the write of updated_at is answered, then finally
SecretUpdated(c) ==
  /\ pc[c] = "update"
  /\ LET r == UpdateSecret(db, loc[c].req) IN
     /\ db' = r.db
     /\ IF r.ok
        THEN UnlockEntry(c, "optimisticUpdate", r.secret, loc[c])
        ELSE UnlockEntry(c, "optimisticUpdate", secret[InstOf(c)],
                         [loc[c] EXCEPT !.err = r.error])
  /\ UNCHANGED <<now, updatedVersionName, callers, op, wonEtags, calls, cache>>

\* unlock(): the conditioned write is answered
Unlocked(c) ==
  /\ pc[c] = "unlock"
  /\ LET i == InstOf(c)
         r == UpdateSecret(db, loc[c].req)
     IN /\ db' = r.db
        /\ IF r.ok
           THEN /\ secret' = [secret EXCEPT ![i] = r.secret]
                /\ Settled(c, IF op[c] = "unlock"
                              THEN Resolved("unlock", NoSecret, NoData, FALSE)
                              ELSE RotateOutcome(loc[c]))
           ELSE /\ UNCHANGED secret
                /\ Settled(c, Rejected(op[c], r.error))
  /\ UNCHANGED <<now, pendingSecret, updatedVersionName, callers, op,
                 wonEtags, calls, cache>>

\* time passes
Tick ==
  /\ now < MaxTime
  /\ now' = now + 1
  /\ UNCHANGED <<db, secret, pendingSecret, updatedVersionName, callers,
                 pc, op, loc, lastSettled, wonEtags, calls, cache>>

\* ---- specification ---------------------------------------------------------
InitialVersions ==
  {<<>>, <<[state |-> "ENABLED", scheduledDestroyTime |-> FALSE, data |-> "v1"]>>}

InitWith(cs) ==
  /\ db \in {[secret |-> [etag |-> 1, annotations |-> NoAnnotations,
                          versionDestroyTtl |-> t],
              versions |-> vs] : t \in BOOLEAN, vs \in InitialVersions}
  /\ now = 0
  /\ secret = [i \in Inst |-> NoSecret]
  /\ pendingSecret = [i \in Inst |-> NoPromise]
  /\ updatedVersionName = [i \in Inst |-> 0]
  /\ callers = cs
  /\ pc = [c \in Calls |-> "idle"]
  /\ op = [c \in Calls |-> "none"]
  /\ loc = [c \in Calls |-> NoLoc]
  /\ lastSettled = [i \in Inst |-> NoOutcome]
  /\ wonEtags = {}
  /\ calls = 0
  /\ cache = NoCache

\* another party writes the secret without an etag and with an empty update
\* mask: the annotations stay, the etag changes
ForeignUpdate ==
  /\ db.secret.etag < MaxForeignEtag
  /\ db' = UpdateSecret(db, [etag |-> 0, annotations |-> db.secret.annotations]).db
  /\ UNCHANGED <<now, secret, pendingSecret, updatedVersionName, callers,
                 pc, op, loc, lastSettled, wonEtags, calls, cache>>

\* optimisticUpdate: fn(...args) returns an array or array-like object
ProducerArray(c) ==
  /\ pc[c] = "fn"
  /\ \E r \in ArrayResults :
       /\ pc' = [pc EXCEPT ![c] = "getLatestVersion"]
       /\ loc' = [loc EXCEPT ![c].secretData = r]
  /\ UNCHANGED <<db, now, secret, pendingSecret, updatedVersionName, callers,
                 op, lastSettled, wonEtags, calls, cache>>

\* two instances, one caller each
Init == InitWith({"a1", "b1"})

\* one instance with two concurrent callers
InitSameInstance == InitWith({"a1", "a2"})

Next ==
  \/ \E c \in Calls : CallLock(c)
  \/ \E c \in Calls : CallUnlock(c)
  \/ \E c \in Calls : CallOptimisticUpdate(c)
  \/ \E c \in Calls : GetSecretAnswered(c)
  \/ \E c \in Calls : LockCheck(c)
  \/ \E c \in Calls : LockUpdated(c)
  \/ \E c \in Calls : Producer(c)
  \/ \E c \in Calls : LatestVersionRead(c)
  \/ \E c \in Calls : VersionAdded(c)
  \/ \E c \in Calls : VersionDestroyed(c)
  \/ \E c \in Calls : SecretUpdated(c)
  \/ \E c \in Calls : Unlocked(c)
  \/ Tick

Spec == Init /\ [][Next]_vars

SpecSameInstance == InitSameInstance /\ [][Next]_vars

\* one instance with one caller, another party writing the secret, and
\* producers that return arrays
InitSolo == InitWith({"a1"})

NextSolo ==
  \/ Next
  \/ ForeignUpdate
  \/ \E c \in Calls : ProducerArray(c)

SpecSolo == InitSolo /\ [][NextSolo]_vars

\* ---- CachedSecret and SecretsCache -----------------------------------------
\* AccessSecretVersion of versions/latest: the payload of the newest version
\* whatever its state, NOT_FOUND when the secret has no version
AccessSecretVersion(d) ==
  IF Len(d.versions) = 0
  THEN [error |-> "NotFound", name |-> 0, data |-> ""]
  ELSE [error |-> "none", name |-> Len(d.versions),
        data |-> d.versions[Len(d.versions)].data]

\* GetSecretVersion of versions/latest as an answer with its error
GetSecretVersionAnswer(d) ==
  IF Len(d.versions) = 0
  THEN [error |-> "NotFound", name |-> 0, data |-> ""]
  ELSE [error |-> "none", name |-> Len(d.versions), data |-> ""]

\* a store call that fails for another reason than NOT_FOUND
Unavailable == [error |-> "Unavailable", name |-> 0, data |-> ""]

getLatestNeverThrows(ans, throwOnNotFound) ==
  IF ans.error = "none"
  THEN [kind |-> "value", error |-> "none", name |-> ans.name, data |-> ans.data]
  ELSE [kind |-> "null", error |-> "none", name |-> 0, data |-> ""]
\* the try/catch of getLatestVersion and getLatestData:
\*   if (!throwOnNotFound && err.code === RpcCodes.NOT_FOUND) return null;
\*   throw err;
getLatest(ans, throwOnNotFound) ==
  IF ans.error = "none"
  THEN [kind |-> "value", error |-> "none", name |-> ans.name, data |-> ans.data]
  ELSE IF ~throwOnNotFound /\ ans.error = "NotFound"
  THEN [kind |-> "null", error |-> "none", name |-> 0, data |-> ""]
  ELSE [kind |-> "throw", error |-> ans.error, name |-> 0, data |-> ""]

getLatestVersion(ans, throwOnNotFound) == getLatest(ans, throwOnNotFound)
getLatestData(ans, throwOnNotFound) == getLatest(ans, throwOnNotFound)

\* the decimal digits of an ordinal, as the characters of its name
RECURSIVE Digits(_)
Digits(n) == IF n < 10 THEN <<n>> ELSE Append(Digits(n \div 10), n % 10)

\* a > b of two strings: by the first character that differs, a proper
\* prefix being the smaller
RECURSIVE StringGreater(_, _)
StringGreater(a, b) ==
  IF a = <<>> THEN FALSE
  ELSE IF b = <<>> THEN TRUE
  ELSE IF Head(a) # Head(b) THEN Head(a) > Head(b)
  ELSE StringGreater(Tail(a), Tail(b))

\* latestVersionData.name > this.versionName: both names are
\* <secret>/versions/<ordinal>, compared as strings
NameGreater(a, b) == StringGreater(Digits(a), Digits(b))

PayloadDiffersNever(value, data) == FALSE
\* Buffer.from(this.value).compare(Buffer.from(latestVersionData.payload.data)) !== 0
PayloadDiffers(value, data) == value # data

ReadsLatestOnlyWithoutValue(e) == e.value = NoValue
\* update(): if (!this.updateMethod || !this.value)
ReadsLatest(e) == ~e.updateMethod \/ e.value = NoValue

ThrowOnNotFoundAlways(e) == TRUE
\* update(): getLatestData(!this.updateMethod)
ThrowOnNotFound(e) == ~e.updateMethod

\* this.updateMethod && !this.value
HasNoValue(e) == e.updateMethod /\ e.value = NoValue

\* this.updateMethod && this.value && !this.versionName
HasValueOnly(e) == e.updateMethod /\ e.value # NoValue /\ e.versionName = 0

\* CachedSecret.update(): what it does with the answer of getLatestData.
\* next is "adopt" (return the store's value), "rotate" (call
\* _updateCachedSecret) or "throw"; entry is the object afterwards.
Update(e, ans) ==
  IF ReadsLatest(e)
  THEN LET r == getLatestData(ans, ThrowOnNotFound(e)) IN
       IF r.kind = "throw" THEN [next |-> "throw", entry |-> e, error |-> r.error]
       ELSE IF r.kind = "null" /\ e.updateMethod
       THEN [next |-> "rotate", entry |-> e, error |-> "none"]
       ELSE IF r.kind = "null"
       THEN [next |-> "throw", entry |-> e, error |-> "TypeError"]
       ELSE [next |-> "adopt", error |-> "none",
             entry |-> [e EXCEPT !.versionName = r.name, !.value = r.data]]
  ELSE IF e.versionName = 0
  THEN LET r == getLatestData(ans, FALSE) IN
       IF r.kind = "throw" THEN [next |-> "throw", entry |-> e, error |-> r.error]
       ELSE IF r.kind = "null"
       THEN [next |-> "rotate", entry |-> e, error |-> "none"]
       ELSE IF PayloadDiffers(e.value, r.data)
       THEN [next |-> "adopt", error |-> "none",
             entry |-> [e EXCEPT !.versionName = r.name, !.value = r.data]]
       ELSE [next |-> "rotate", error |-> "none",
             entry |-> [e EXCEPT !.versionName = r.name]]
  ELSE LET r == getLatestData(ans, FALSE) IN
       IF r.kind = "throw" THEN [next |-> "throw", entry |-> e, error |-> r.error]
       ELSE IF r.kind = "null"
       THEN [next |-> "throw", entry |-> e, error |-> "TypeError"]
       ELSE IF NameGreater(r.name, e.versionName)
       THEN [next |-> "adopt", error |-> "none",
             entry |-> [e EXCEPT !.versionName = r.name, !.value = r.data]]
       ELSE [next |-> "rotate", entry |-> e, error |-> "none"]

\* the next CachedSecret object to be constructed
Allocated(ch) == Cardinality({e \in Entries : ch.entries[e].alloc})
NewEntry(ch) == EntryNames[Allocated(ch) + 1]

InFlightNever(ch) == FALSE
\* lru-cache fetch(): the value held for the key is a background fetch
InFlight(ch) == ch.fetch.running

BackgroundFetchWithMethod(ch, d) ==
  LET miss == ch.slot = "none"
      n == NewEntry(ch)
  IN [ch EXCEPT
        !.fetch = [running |-> TRUE, id |-> ch.refreshes + 1, stale |-> ch.slot,
                   obj |-> IF miss THEN n ELSE ch.slot,
                   phase |-> "getLatestData",
                   len0 |-> Len(d.versions), adds0 |-> ch.foreignAdds,
                   etag0 |-> d.secret.etag,
                   lockedAt0 |-> d.secret.annotations.locked_at,
                   ttl |-> ch.defaultTtl,
                   before |-> IF miss THEN NoEntry ELSE ch.entries[ch.slot]],
        !.refreshes = @ + 1,
        !.entries = IF miss
                    THEN [@ EXCEPT ![n] = [NoEntry EXCEPT !.alloc = TRUE,
                                                          !.updateMethod = TRUE]]
                    ELSE @]
\* lru-cache backgroundFetch: fetchMethod(key, staleValue) starts.  Without a
\* stale value it constructs new CachedSecret(key, null, { client }); then
\* update() runs on the object up to its await of getLatestData.
BackgroundFetch(ch, d) ==
  LET miss == ch.slot = "none"
      n == NewEntry(ch)
  IN [ch EXCEPT
        !.fetch = [running |-> TRUE, id |-> ch.refreshes + 1, stale |-> ch.slot,
                   obj |-> IF miss THEN n ELSE ch.slot,
                   phase |-> "getLatestData",
                   len0 |-> Len(d.versions), adds0 |-> ch.foreignAdds,
                   etag0 |-> d.secret.etag,
                   lockedAt0 |-> d.secret.annotations.locked_at,
                   ttl |-> ch.defaultTtl,
                   before |-> IF miss THEN NoEntry ELSE ch.entries[ch.slot]],
        !.refreshes = @ + 1,
        !.entries = IF miss THEN [@ EXCEPT ![n] = [NoEntry EXCEPT !.alloc = TRUE]]
                    ELSE @]

CloneWithoutUpdateMethod(e) == [e EXCEPT !.alloc = TRUE, !.updateMethod = FALSE]
\* clone(newValue): new this.constructor(this.name, newValue,
\*                    { ...this.options, versionName: this.versionName })
\* where newValue is what update() returned, this.value
Clone(e) == [e EXCEPT !.alloc = TRUE]

FetchResolvedUncached(ch) ==
  LET f == ch.fetch
      miss == f.stale = "none"
      n == NewEntry(ch)
      res == IF miss THEN f.obj ELSE n
  IN [ch EXCEPT
        !.entries = IF miss THEN @ ELSE [@ EXCEPT ![n] = Clone(ch.entries[f.obj])],
        !.fetch = NoFetch,
        !.results = [g \in Getters |->
                       IF @[g].state = "waiting" /\ @[g].promise = f.id
                       THEN [@[g] EXCEPT !.state = "resolved", !.entry = res]
                       ELSE @[g]],
        !.settled = [id |-> f.id, status |-> "resolved", entry |-> res,
                     error |-> "none", stale |-> f.stale, before |-> f.before]]
\* fetchMethod resolves: with the new object itself after a miss, with a
\* clone of staleValue otherwise; lru-cache stores it under the key and
\* resolves the promise of the fetch
FetchResolved(ch) ==
  LET f == ch.fetch
      miss == f.stale = "none"
      n == NewEntry(ch)
      res == IF miss THEN f.obj ELSE n
  IN [ch EXCEPT
        !.entries = IF miss THEN @ ELSE [@ EXCEPT ![n] = Clone(ch.entries[f.obj])],
        !.slot = res,
        !.ttl = f.ttl,
        !.expired = FALSE,
        !.fetch = NoFetch,
        !.results = [g \in Getters |->
                       IF @[g].state = "waiting" /\ @[g].promise = f.id
                       THEN [@[g] EXCEPT !.state = "resolved", !.entry = res]
                       ELSE @[g]],
        !.settled = [id |-> f.id, status |-> "resolved", entry |-> res,
                     error |-> "none", stale |-> f.stale, before |-> f.before]]

DeletedOnRejection(ch, err) ==
  LET f == ch.fetch IN
  [ch EXCEPT
     !.slot = "none",
     !.fetch = NoFetch,
     !.results = [g \in Getters |->
                    IF @[g].state = "waiting" /\ @[g].promise = f.id
                    THEN [@[g] EXCEPT !.state = "rejected", !.error = err]
                    ELSE @[g]],
     !.settled = [id |-> f.id, status |-> "rejected", entry |-> "none",
                  error |-> err, stale |-> f.stale, before |-> f.before]]
\* fetchMethod rejects: with noDeleteOnFetchRejection lru-cache puts the
\* stale value back under the key (the key is deleted when there was none)
\* and rejects the promise of the fetch
FetchRejected(ch, err) ==
  LET f == ch.fetch IN
  [ch EXCEPT
     !.slot = f.stale,
     !.fetch = NoFetch,
     !.results = [g \in Getters |->
                    IF @[g].state = "waiting" /\ @[g].promise = f.id
                    THEN [@[g] EXCEPT !.state = "rejected", !.error = err]
                    ELSE @[g]],
     !.settled = [id |-> f.id, status |-> "rejected", entry |-> "none",
                  error |-> err, stale |-> f.stale, before |-> f.before]]

\* _updateCachedSecret: optimisticUpdate(this.updateMethod, ...args) up to the
\* first await of lock()
EnterRotate(c) ==
  LET i == InstOf(c) IN
  /\ op' = [op EXCEPT ![c] = "optimisticUpdate"]
  /\ IF LockHeld(i)
     THEN /\ pc' = [pc EXCEPT ![c] = "fn"]
          /\ loc' = [loc EXCEPT ![c].secret = secret[i]]
          /\ UNCHANGED pendingSecret
     ELSE /\ Prepare(c)
          /\ pc' = [pc EXCEPT ![c] = "prepare"]

\* new CachedSecret(..): the object of the key is a new ConcurrentSecret
\* (index.js:38-46: secret, pendingSecret and updatedVersionName undefined)
FreshObject ==
  /\ secret' = [secret EXCEPT ![CacheInst] = NoSecret]
  /\ pendingSecret' = [pendingSecret EXCEPT ![CacheInst] = NoPromise]
  /\ updatedVersionName' = [updatedVersionName EXCEPT ![CacheInst] = 0]
  /\ lastSettled' = [lastSettled EXCEPT ![CacheInst] = NoOutcome]
  /\ op' = [op EXCEPT ![CacheCaller] = "none"]

\* the object of the key stays the one it was
SameObject ==
  UNCHANGED <<secret, pendingSecret, updatedVersionName, lastSettled, op>>

IsStaleNever(ch) == FALSE
\* lru-cache isStale: the entry has a ttl and has outlived it
IsStale(ch) == ch.ttl # NoTtl /\ ch.expired

\* cache.fetch(name, { forceRefresh }) called by g
Fetch(g, o, forceRefresh) ==
  /\ cache.results[g].state # "waiting"
  /\ calls < MaxFetches
  /\ calls' = calls + 1
  /\ IF InFlight(cache)
     THEN /\ cache' = [cache EXCEPT !.results[g] =
                         [NoResult EXCEPT !.state = "waiting", !.op = o,
                                          !.after = cache.settled.id,
                                          !.promise = cache.fetch.id,
                                          !.joined = TRUE]]
          /\ SameObject
     ELSE IF cache.slot # "none" /\ ~forceRefresh /\ ~IsStale(cache)
     THEN /\ cache' = [cache EXCEPT !.results[g] =
                         [NoResult EXCEPT !.state = "resolved", !.op = o,
                                          !.after = cache.settled.id,
                                          !.entry = cache.slot]]
          /\ SameObject
     ELSE /\ cache.refreshes < MaxRefreshes
          /\ cache' = [BackgroundFetch(cache, db) EXCEPT !.results[g] =
                         [NoResult EXCEPT !.state = "waiting", !.op = o,
                                          !.after = cache.settled.id,
                                          !.promise = cache.refreshes + 1]]
          /\ IF cache.slot = "none" THEN FreshObject ELSE SameObject
  /\ UNCHANGED <<db, now, callers, pc, loc, wonEtags>>

\* SecretsCache.get(name)
CacheGet(g) == Fetch(g, "get", FALSE)

\* SecretsCache.update(name)
CacheUpdate(g) == Fetch(g, "update", TRUE)

\* the values a caller passes to set() as initialValue: none, the payload of
\* the store's first version, or another one
InitialValues == {NoValue, "v1", "x"}

\* SecretsCache.set(name, initialValue, updateMethod, options): the key is
\* registered once, the entry is stored with the time to live t; without an
\* initial value a forced fetch starts whose promise nobody holds
SetEntry(v, u, t) ==
  /\ ~cache.registered
  /\ ~cache.fetch.running
  /\ LET n == NewEntry(cache)
         c1 == [cache EXCEPT !.entries[n] = [alloc |-> TRUE, value |-> v,
                                             versionName |-> 0,
                                             updateMethod |-> u],
                             !.slot = n,
                             !.ttl = t,
                             !.expired = FALSE,
                             !.settled = NoSettled,
                             !.registered = TRUE]
     IN IF v = NoValue
        THEN /\ cache.refreshes < MaxRefreshes
             /\ cache' = BackgroundFetch(c1, db)
        ELSE cache' = c1
  /\ FreshObject
  /\ UNCHANGED <<db, now, callers, pc, loc, wonEtags, calls>>

\* set() without options.ttl: lru-cache stores the entry with the ttl the
\* cache was constructed with
CacheSet(v, u) == SetEntry(v, u, cache.defaultTtl)

\* set() with options.ttl
CacheSetTtl(v, u) == SetEntry(v, u, "options.ttl")

\* time passes beyond the time to live of the stored entry
Expire ==
  /\ cache.slot # "none"
  /\ cache.ttl # NoTtl
  /\ ~cache.expired
  /\ cache' = [cache EXCEPT !.expired = TRUE]
  /\ UNCHANGED <<db, now, secret, pendingSecret, updatedVersionName, callers,
                 pc, op, loc, lastSettled, wonEtags, calls>>

\* the refresh function of the cached secret writes a time to live into
\* fetcherOptions.options and returns a string
ProducerTtl(c) ==
  /\ c = CacheCaller
  /\ pc[c] = "fn"
  /\ cache.fetch.running
  /\ \E r \in ProducerResults :
       /\ r.kind = "string"
       /\ loc' = [loc EXCEPT ![c].secretData = r]
  /\ pc' = [pc EXCEPT ![c] = "getLatestVersion"]
  /\ cache' = [cache EXCEPT !.fetch.ttl = "fetcherOptions.options.ttl"]
  /\ UNCHANGED <<db, now, secret, pendingSecret, updatedVersionName, callers,
                 op, lastSettled, wonEtags, calls>>

\* update(): the store answers getLatestData (fault: with an error other
\* than NOT_FOUND), and update() runs on to its return, its throw or the
\* first await of _updateCachedSecret
LatestDataAnswered(fault) ==
  /\ cache.fetch.running
  /\ cache.fetch.phase = "getLatestData"
  /\ LET e == cache.fetch.obj
         u == Update(cache.entries[e],
                     IF fault THEN Unavailable ELSE AccessSecretVersion(db))
         c1 == [cache EXCEPT !.entries[e] = u.entry]
     IN IF u.next = "rotate"
        THEN /\ cache' = [c1 EXCEPT !.fetch.phase = "rotate"]
             /\ EnterRotate(CacheCaller)
             /\ UNCHANGED <<secret, updatedVersionName, lastSettled>>
        ELSE IF u.next = "adopt"
        THEN /\ cache' = FetchResolved(c1)
             /\ IF cache.fetch.stale # "none" THEN FreshObject ELSE SameObject
             /\ UNCHANGED <<pc, loc>>
        ELSE /\ cache' = FetchRejected(c1, u.error)
             /\ SameObject
             /\ UNCHANGED <<pc, loc>>
  /\ UNCHANGED <<db, now, callers, wonEtags, calls>>

RotateSettledKeepingName ==
  /\ cache.fetch.running
  /\ cache.fetch.phase = "rotate"
  /\ pc[CacheCaller] = "idle"
  /\ LET o == lastSettled[CacheInst]
         e == cache.fetch.obj
     IN IF o.status = "resolved"
        THEN /\ cache' = FetchResolved([cache EXCEPT
                            !.entries[e].value = o.data.data])
             /\ FreshObject
        ELSE /\ cache' = FetchRejected(cache, o.error)
             /\ SameObject
  /\ UNCHANGED <<db, now, callers, pc, loc, wonEtags, calls>>
\* _updateCachedSecret after optimisticUpdate settled:
\*   this.value = (await this.optimisticUpdate(..))?.toString();
\*   this.versionName = this.updatedVersionName;
RotateSettled ==
  /\ cache.fetch.running
  /\ cache.fetch.phase = "rotate"
  /\ pc[CacheCaller] = "idle"
  /\ LET o == lastSettled[CacheInst]
         e == cache.fetch.obj
     IN IF o.status = "resolved"
        THEN /\ cache' = FetchResolved([cache EXCEPT
                            !.entries[e].value = o.data.data,
                            !.entries[e].versionName = updatedVersionName[CacheInst]])
             /\ FreshObject
        ELSE /\ cache' = FetchRejected(cache, o.error)
             /\ SameObject
  /\ UNCHANGED <<db, now, callers, pc, loc, wonEtags, calls>>

\* another writer adds a version to the secret
ForeignAddVersion ==
  /\ cache.foreignAdds < MaxForeignAdds
  /\ Len(db.versions) < ManyVersions + 1
  /\ db' = AddSecretVersion(db, "f")
  /\ cache' = [cache EXCEPT !.foreignAdds = @ + 1]
  /\ UNCHANGED <<now, secret, pendingSecret, updatedVersionName, callers,
                 pc, op, loc, lastSettled, wonEtags, calls>>

\* a ConcurrentSecret of another process takes the lock of the unlocked
\* secret, and keeps it
ForeignLock ==
  /\ db.secret.annotations.locked_at = Absent
  /\ db' = UpdateSecret(db, LockRequest(Snapshot(db), now)).db
  /\ UNCHANGED <<now, secret, pendingSecret, updatedVersionName, callers,
                 pc, op, loc, lastSettled, wonEtags, calls, cache>>

\* getLatestVersion(throwOnNotFound) or getLatestData(throwOnNotFound) is
\* called on a ConcurrentSecret of the secret and answered
CallGetLatest(which, throwOnNotFound, fault) ==
  /\ ~cache.registered
  /\ LET ans == IF fault THEN Unavailable
                ELSE IF which = "getLatestVersion" THEN GetSecretVersionAnswer(db)
                ELSE AccessSecretVersion(db)
         r == IF which = "getLatestVersion"
              THEN getLatestVersion(ans, throwOnNotFound)
              ELSE getLatestData(ans, throwOnNotFound)
     IN cache' = [cache EXCEPT !.direct =
                    [which |-> which, flag |-> throwOnNotFound,
                     answer |-> ans.error, kind |-> r.kind, error |-> r.error]]
  /\ UNCHANGED <<db, now, secret, pendingSecret, updatedVersionName, callers,
                 pc, op, loc, lastSettled, wonEtags, calls>>

\* the versions a secret of the cache starts with
RECURSIVE OldVersions(_)
OldVersions(n) ==
  IF n = 0 THEN <<>>
  ELSE Append(OldVersions(n - 1),
              [state |-> "DESTROYED", scheduledDestroyTime |-> FALSE, data |-> "v0"])
CacheVersions ==
  {<<>>,
   Append(OldVersions(ManyVersions - 1),
          [state |-> "ENABLED", scheduledDestroyTime |-> FALSE, data |-> "v1"])}

\* a SecretsCache with one key and nothing registered
InitCache ==
  /\ db \in {[secret |-> [etag |-> 1, annotations |-> NoAnnotations,
                          versionDestroyTtl |-> TRUE],
              versions |-> vs] : vs \in CacheVersions}
  /\ now = 0
  /\ secret = [i \in Inst |-> NoSecret]
  /\ pendingSecret = [i \in Inst |-> NoPromise]
  /\ updatedVersionName = [i \in Inst |-> 0]
  /\ callers = {}
  /\ pc = [c \in Calls |-> "idle"]
  /\ op = [c \in Calls |-> "none"]
  /\ loc = [c \in Calls |-> NoLoc]
  /\ lastSettled = [i \in Inst |-> NoOutcome]
  /\ wonEtags = {}
  /\ calls = 0
  /\ cache = NoCache

NextCache ==
  \/ \E v \in InitialValues, u \in BOOLEAN : CacheSet(v, u)
  \/ \E g \in Getters : CacheGet(g)
  \/ \E g \in Getters : CacheUpdate(g)
  \/ \E fault \in BOOLEAN : LatestDataAnswered(fault)
  \/ RotateSettled
  \/ \E c \in Calls : GetSecretAnswered(c)
  \/ \E c \in Calls : LockCheck(c)
  \/ \E c \in Calls : LockUpdated(c)
  \/ \E c \in Calls : Producer(c)
  \/ \E c \in Calls : LatestVersionRead(c)
  \/ \E c \in Calls : VersionAdded(c)
  \/ \E c \in Calls : VersionDestroyed(c)
  \/ \E c \in Calls : SecretUpdated(c)
  \/ \E c \in Calls : Unlocked(c)
  \/ ForeignLock
  \/ ForeignAddVersion

SpecCache == InitCache /\ [][NextCache]_vars

\* getLatestVersion and getLatestData called with every flag against every
\* answer of the store
NextLatest ==
  \/ \E w \in {"getLatestVersion", "getLatestData"}, f \in BOOLEAN,
        fault \in BOOLEAN : CallGetLatest(w, f, fault)
  \/ ForeignAddVersion
  \/ ForeignUpdate
  \/ Tick

SpecLatest == InitCache /\ [][NextLatest]_vars

\* ---- properties ------------------------------------------------------------
\* no caller of instance i is inside an operation
Quiet(i) == \A d \in Calls : InstOf(d) = i => pc[d] = "idle"

\* the outcome recorded when caller c settles with o
SettledAs(c, o) == lastSettled'[InstOf(c)] = [o EXCEPT !.by = c]

\* C1: of the conditioned writes that lock() issues with one and the same
\* etag, at most one is accepted; a lock() whose write is refused fails with
\* PreconditionFailed and leaves this.secret of its instance unset.
C1_OneLockWritePerEtag ==
  [][\A c \in Calls :
       LockUpdated(c) =>
         /\ loc[c].req.etag \in wonEtags => db' = db
         /\ db' = db =>
              /\ SettledAs(c, Rejected(op[c], "PreconditionFailed"))
              /\ ~IsSet(secret'[InstOf(c)])]_vars

\* C1 witness: B read the etag that A's lock() won with, B's own conditioned
\* write was refused, and A holds the snapshot of its accepted write.
C1_Witness ==
  /\ lastSettled["B"].op = "lock"
  /\ lastSettled["B"].error = "PreconditionFailed"
  /\ pendingSecret["B"].state = "resolved"
  /\ pendingSecret["B"].secret.etag \in wonEtags
  /\ ~IsSet(secret["B"])
  /\ secret["A"].etag = pendingSecret["B"].secret.etag + 1
  /\ lastSettled["A"].op = "lock"
  /\ lastSettled["A"].status = "resolved"

\* caller c is inside optimisticUpdate() and its addSecretVersion was answered
AddedVersion(c) ==
  pc[c] # "idle" /\ op[c] = "optimisticUpdate" /\ loc[c].newVersion # 0

\* C2: of two optimisticUpdate() calls running at the same time on different
\* instances, at most one gets as far as adding a secret version.
C2_OneRotateAddsVersion ==
  \A c, d \in Calls :
    InstOf(c) # InstOf(d) => ~(AddedVersion(c) /\ AddedVersion(d))

\* C3: when the updated_at write of optimisticUpdate() is accepted, the
\* version this call added is still there, not destroyed and not scheduled
\* for destruction.
C3_AddedVersionSurvives ==
  [][\A c \in Calls :
       SecretUpdated(c) /\ db'.secret.etag # db.secret.etag =>
         LET v == loc[c].newVersion
         IN /\ v \in DOMAIN db'.versions
            /\ db'.versions[v].state # "DESTROYED"
            /\ ~db'.versions[v].scheduledDestroyTime]_vars

\* C4: while the secret carries locked_at = T written by another instance
\* and now <= T + gracePeriodMs, lock() on an instance that holds no lock does
\* not succeed.  lock() that has read metadata with locked_at = T: if
\* now <= T + gracePeriodMs it fails with ConcurrentModification and sends no
\* write; otherwise it sends a write conditioned on the etag it read, carrying
\* locked_at = now, and when that etag is still current the write is accepted
\* and the instance holds the lock with the new locked_at.
C4_GracePeriod ==
  [][\A c \in Calls :
       /\ /\ CallLock(c)
          /\ secret[InstOf(c)].annotations.locked_at = Absent
          /\ db.secret.annotations.locked_at # Absent
          /\ now <= db.secret.annotations.locked_at + GracePeriodMs
          => ~(pc'[c] = "idle" /\ lastSettled'[InstOf(c)].status = "resolved")
       /\ LockCheck(c) =>
            LET s == loc[c].promise.secret
                T == s.annotations.locked_at
            IN IF T # Absent /\ now <= T + GracePeriodMs
               THEN /\ SettledAs(c, Rejected(op[c], "ConcurrentModification"))
                    /\ pc'[c] = "idle"
                    /\ db' = db
               ELSE /\ pc'[c] = "lock"
                    /\ loc'[c].req.etag = s.etag
                    /\ loc'[c].req.annotations.locked_at = now
       /\ LockUpdated(c) /\ loc[c].req.etag = db.secret.etag =>
            /\ db'.secret.annotations.locked_at = loc[c].req.annotations.locked_at
            /\ secret'[InstOf(c)] = Snapshot(db')
            /\ op[c] = "lock" =>
                 SettledAs(c, Resolved("lock", Snapshot(db'), NoData, FALSE))]_vars

\* C5: an accepted unlock() leaves this.secret unset, and whatever this.secret
\* holds is metadata carrying locked_at, so that lock() never answers from
\* metadata that is not locked.
C5_ReleaseForgetsSnapshot ==
  /\ [](\A i \in Inst :
          IsSet(secret[i]) => secret[i].annotations.locked_at # Absent)
  /\ [][\A c \in Calls :
          Unlocked(c) /\ db' # db => ~IsSet(secret'[InstOf(c)])]_vars

\* C6: when optimisticUpdate() settles after its producer threw, it rejects
\* with the producer's error, it has added no version, and the stored secret
\* no longer carries the locked_at this call held.
C6_ProducerErrorSurfaces ==
  [][\A c \in Calls :
       /\ op[c] = "optimisticUpdate"
       /\ pc[c] = "fn" \/ (pc[c] = "unlock" /\ loc[c].err = "ProducerError")
       /\ pc'[c] = "idle"
       => /\ lastSettled'[InstOf(c)].by = c
          /\ lastSettled'[InstOf(c)].status = "rejected"
          /\ lastSettled'[InstOf(c)].error = "ProducerError"
          /\ loc[c].newVersion = 0
          /\ db'.versions = db.versions
          /\ loc[c].secret.annotations.locked_at # Absent =>
               db'.secret.annotations.locked_at
                 # loc[c].secret.annotations.locked_at]_vars

\* instance i is quiet and the last operation completed on it, if any, was
\* not a successful lock(): the instance holds no lock
HoldsNoLock(i) ==
  /\ Quiet(i)
  /\ ~(lastSettled[i].op = "lock" /\ lastSettled[i].status = "resolved")

\* C7: unlock() on an instance that holds no lock (never locked, or already
\* released) resolves at once, sends no write and leaves the stored secret
\* with its etag untouched.
C7_ReleaseIdempotent ==
  [][\A c \in Calls :
       CallUnlock(c) /\ HoldsNoLock(InstOf(c)) =>
         /\ pc'[c] = "idle"
         /\ SettledAs(c, Resolved("unlock", NoSecret, NoData, FALSE))
         /\ db' = db]_vars

\* C8: lock() on a quiet instance whose last completed operation was a
\* successful lock() resolves at once with the very snapshot that lock()
\* returned, without issuing a read or a write.
C8_LockCached ==
  [][\A c \in Calls :
       /\ CallLock(c)
       /\ Quiet(InstOf(c))
       /\ lastSettled[InstOf(c)].op = "lock"
       /\ lastSettled[InstOf(c)].status = "resolved"
       => /\ pc'[c] = "idle"
          /\ lastSettled'[InstOf(c)].status = "resolved"
          /\ lastSettled'[InstOf(c)].secret = lastSettled[InstOf(c)].secret
          /\ lastSettled'[InstOf(c)].secret = secret[InstOf(c)]
          /\ pendingSecret' = pendingSecret
          /\ loc' = loc
          /\ secret' = secret
          /\ db' = db]_vars

\* C8 witness: a lock() has been answered from the snapshot an earlier lock()
\* of the instance stored, which carries that lock's locked_at.
C8_Witness ==
  \E i \in Inst :
    /\ lastSettled[i].op = "lock"
    /\ lastSettled[i].status = "resolved"
    /\ lastSettled[i].cached
    /\ lastSettled[i].secret.annotations.locked_at # Absent
    /\ lastSettled[i].secret = secret[i]

\* C9: two lock() calls of one instance never both have the conditioned
\* write in flight.
C9_OneWritePerInstance ==
  \A c, d \in Calls :
    c # d /\ InstOf(c) = InstOf(d) => ~(pc[c] = "lock" /\ pc[d] = "lock")

\* C10: when lock() fails, no metadata read stays cached on the instance, and
\* the next lock() or optimisticUpdate() on it issues a new read.
C10_FailedLockForgetsRead ==
  [][\A c \in Calls :
       /\ (LockCheck(c) \/ LockUpdated(c)) /\ op[c] = "lock"
          /\ lastSettled'[InstOf(c)].status = "rejected" /\ pc'[c] = "idle"
          => pendingSecret'[InstOf(c)] = NoPromise
       /\ (CallLock(c) \/ CallOptimisticUpdate(c))
          /\ Quiet(InstOf(c))
          /\ lastSettled[InstOf(c)].op = "lock"
          /\ lastSettled[InstOf(c)].status = "rejected"
          => pendingSecret'[InstOf(c)] =
               [state |-> "pending", by |-> c, secret |-> NoSecret]]_vars

\* the steps of optimisticUpdate() between lock() and unlock()
InTry(c) ==
  /\ op[c] = "optimisticUpdate"
  /\ pc[c] \in {"fn", "getLatestVersion", "addSecretVersion",
                "destroySecretVersion", "update"}

\* C11: when the unlock() write at the end of optimisticUpdate() is refused,
\* the call rejects with the error of the step that failed before it, and
\* with unlock()'s error only when no step failed.
C11_FirstErrorWins ==
  [][\A c \in Calls :
       Unlocked(c) /\ op[c] = "optimisticUpdate" /\ db' = db =>
         /\ lastSettled'[InstOf(c)].by = c
         /\ lastSettled'[InstOf(c)].status = "rejected"
         /\ lastSettled'[InstOf(c)].error =
              IF loc[c].err # "none" THEN loc[c].err ELSE "PreconditionFailed"]_vars

ReleaseFailed(i) ==
  /\ lastSettled[i].op = "unlock"
  /\ lastSettled[i].error = "PreconditionFailed"

\* C13: an unlock() whose write is refused rejects with PreconditionFailed and
\* leaves the instance with neither this.secret nor a pending read; the next
\* lock() of the instance issues a new read, passes the grace period check
\* once the locked_at it read is older than gracePeriodMs, and takes the lock
\* when the etag it read is still the stored one.
C13_FailedReleaseRecovers ==
  [][\A c \in Calls :
       /\ Unlocked(c) /\ op[c] = "unlock" /\ db' = db =>
            /\ SettledAs(c, Rejected("unlock", "PreconditionFailed"))
            /\ pc'[c] = "idle"
            /\ ~IsSet(secret'[InstOf(c)])
            /\ pendingSecret'[InstOf(c)] = NoPromise
       /\ CallLock(c) /\ Quiet(InstOf(c)) /\ ReleaseFailed(InstOf(c)) =>
            /\ pc'[c] = "prepare"
            /\ pendingSecret'[InstOf(c)] =
                 [state |-> "pending", by |-> c, secret |-> NoSecret]
       /\ /\ LockCheck(c) /\ ReleaseFailed(InstOf(c))
          /\ now > loc[c].promise.secret.annotations.locked_at + GracePeriodMs
          => /\ pc'[c] = "lock"
             /\ loc'[c].req.etag = loc[c].promise.secret.etag
       /\ /\ LockUpdated(c) /\ op[c] = "lock" /\ ReleaseFailed(InstOf(c))
          /\ loc[c].req.etag = db.secret.etag
          => /\ SettledAs(c, Resolved("lock", Snapshot(db'), NoData, FALSE))
             /\ secret'[InstOf(c)] = Snapshot(db')
             /\ db'.secret.annotations.locked_at
                  = loc[c].req.annotations.locked_at]_vars

\* C13 witness: after an unlock() refused because another party changed the
\* etag of the locked secret, the instance has read the secret again, the
\* lock it could not release has outlived the grace period, and the write of
\* the new lock() is in flight with the stored etag.
C13_Witness ==
  \E c \in Calls :
    /\ ReleaseFailed(InstOf(c))
    /\ pc[c] = "lock"
    /\ op[c] = "lock"
    /\ loc[c].req.etag = db.secret.etag
    /\ db.secret.annotations.locked_at # Absent
    /\ now > db.secret.annotations.locked_at + GracePeriodMs

\* C14: inside optimisticUpdate(), a lock() that finds the lock it read within
\* the grace period, or whose write is refused, makes the call reject with
\* ConcurrentModification or PreconditionFailed; the call settles straight
\* from lock(): the producer has not run, no version was added and the stored
\* secret and versions are as they were.
C14_FailedLockWritesNothing ==
  [][\A c \in Calls :
       op[c] = "optimisticUpdate" =>
         /\ /\ LockCheck(c)
            /\ loc[c].promise.secret.annotations.locked_at # Absent
            /\ now <= loc[c].promise.secret.annotations.locked_at + GracePeriodMs
            => SettledAs(c, Rejected("optimisticUpdate", "ConcurrentModification"))
         /\ LockUpdated(c) /\ loc[c].req.etag # db.secret.etag =>
              SettledAs(c, Rejected("optimisticUpdate", "PreconditionFailed"))
         /\ pc[c] \in {"prepare", "lock"} /\ pc'[c] \notin {"prepare", "lock", "fn"} =>
              /\ pc'[c] = "idle"
              /\ lastSettled'[InstOf(c)].by = c
              /\ lastSettled'[InstOf(c)].error
                   \in {"ConcurrentModification", "PreconditionFailed"}
              /\ loc[c].secretData = NoData
              /\ loc[c].newVersion = 0
              /\ ~IsSet(secret'[InstOf(c)])
              /\ db' = db]_vars

\* C14 witness: an optimisticUpdate() lost the race for the lock: its lock()
\* write carried an etag another lock() had already won with, the call
\* rejected with PreconditionFailed and the winner holds the lock.
C14_Witness ==
  \E i \in Inst :
    /\ lastSettled[i].op = "optimisticUpdate"
    /\ lastSettled[i].error = "PreconditionFailed"
    /\ pendingSecret[i].state = "resolved"
    /\ pendingSecret[i].secret.etag \in wonEtags
    /\ db.secret.etag = pendingSecret[i].secret.etag + 1
    /\ ~IsSet(secret[i])

\* caller c is inside optimisticUpdate() and its producer has returned a
\* value that is neither a string nor a Buffer
InvalidResult(c) ==
  /\ op[c] = "optimisticUpdate"
  /\ pc[c] # "idle"
  /\ loc[c].secretData.kind \in {"invalid", "array"}

\* C15: after the producer has returned a value that is neither a string nor
\* a Buffer, optimisticUpdate() sends no addSecretVersion and no
\* destroySecretVersion, changes no version, and settles rejected with the
\* TypeError of Buffer.from, the stored secret carrying no locked_at.
C15_InvalidResultRejected ==
  [][\A c \in Calls :
       InvalidResult(c) /\ pc'[c] # pc[c] =>
         /\ pc'[c] \in {"unlock", "idle"}
         /\ db'.versions = db.versions
         /\ pc'[c] = "idle" =>
              /\ lastSettled'[InstOf(c)].by = c
              /\ lastSettled'[InstOf(c)].status = "rejected"
              /\ lastSettled'[InstOf(c)].error = "TypeError"
              /\ db'.secret.annotations.locked_at = Absent]_vars

\* C16: the error of a lock() rejected because the lock it read is within its
\* grace period carries a code different from the code of the server's etag
\* mismatch.
C16_CodesDiffer ==
  \A i \in Inst :
    lastSettled[i].error = "ConcurrentModification" =>
      ErrorCode(lastSettled[i].error) # ErrorCode("PreconditionFailed")

\* C17: addSecretVersion appends one enabled version holding the producer's
\* string; an optimisticUpdate() that resolves returns the producer's result
\* as it was, and when the version it added is still the last one, that
\* version is what 'versions/latest' yields and holds that result.
C17_ReturnsProducerResult ==
  [][\A c \in Calls :
       /\ VersionAdded(c) =>
            /\ Len(db'.versions) = Len(db.versions) + 1
            /\ loc'[c].newVersion = Len(db'.versions)
            /\ db'.versions[Len(db'.versions)].data = loc[c].secretData.data
       /\ Unlocked(c) /\ op[c] = "optimisticUpdate" /\ loc[c].err = "none" /\ db' # db =>
            /\ SettledAs(c, Resolved("optimisticUpdate", NoSecret,
                                     loc[c].secretData, FALSE))
            /\ loc[c].secretData \in ProducerResults
            /\ loc[c].newVersion \in DOMAIN db'.versions
            /\ Len(db'.versions) = loc[c].newVersion =>
                 /\ GetSecretVersion(db').name = loc[c].newVersion
                 /\ db'.versions[loc[c].newVersion].data
                      = lastSettled'[InstOf(c)].data.data]_vars

\* C17 witness: optimisticUpdate() on a secret without versions has resolved
\* with the producer's string, and the only version holds it.
C17_Witness ==
  \E i \in Inst :
    /\ lastSettled[i].op = "optimisticUpdate"
    /\ lastSettled[i].status = "resolved"
    /\ lastSettled[i].data \in ProducerResults
    /\ Len(db.versions) = 1
    /\ db.versions[1].data = lastSettled[i].data.data
    /\ db.versions[1].state = "ENABLED"

\* C18: when an optimisticUpdate() that found an enabled latest version
\* resolves, that previous version is DISABLED and scheduled for destruction
\* if the secret has a version destroy ttl and DESTROYED otherwise, and the
\* version the call added is enabled and is the latest.
C18_PreviousVersionRetired ==
  [][\A c \in Calls :
       /\ Unlocked(c) /\ op[c] = "optimisticUpdate" /\ loc[c].err = "none" /\ db' # db
       /\ loc[c].latestVersion.state = "ENABLED"
       => LET prev == db'.versions[loc[c].latestVersion.name]
              new == db'.versions[loc[c].newVersion]
          IN /\ IF db'.secret.versionDestroyTtl
                THEN prev.state = "DISABLED" /\ prev.scheduledDestroyTime
                ELSE prev.state = "DESTROYED"
             /\ new.state = "ENABLED"
             /\ ~new.scheduledDestroyTime
             /\ GetSecretVersion(db').name = loc[c].newVersion]_vars

\* the annotations caller c found before it locked: those of the metadata its
\* lock() read, or of the snapshot lock() returned without reading
AnnotationsBefore(c) ==
  IF loc[c].promise.state = "resolved"
  THEN loc[c].promise.secret.annotations
  ELSE loc[c].secret.annotations

\* C19: an accepted lock() write leaves the annotations as lock() read them
\* except for locked_at, set to the time of the call; when optimisticUpdate()
\* resolves, the stored annotations are those found before locking, with
\* updated_at set to the time of the update and without locked_at.
C19_AnnotationsPreserved ==
  [][\A c \in Calls :
       /\ LockUpdated(c) /\ db' # db =>
            /\ db'.secret.annotations =
                 [loc[c].promise.secret.annotations
                    EXCEPT !.locked_at = loc[c].req.annotations.locked_at]
            /\ loc[c].req.annotations.locked_at \in 0..now
       /\ Unlocked(c) /\ op[c] = "optimisticUpdate" /\ loc[c].err = "none" /\ db' # db =>
            /\ db'.secret.annotations =
                 [AnnotationsBefore(c)
                    EXCEPT !.updated_at = loc[c].req.annotations.updated_at,
                           !.locked_at = Absent]
            /\ loc[c].req.annotations.updated_at \in 0..now
            /\ loc[c].req.annotations.updated_at
                 >= loc[c].secret.annotations.locked_at]_vars

\* C19 witness: an optimisticUpdate() has resolved on a secret that already
\* carried updated_at from an earlier one; the stored annotations are the
\* initial ones plus updated_at, without locked_at.
C19_Witness ==
  \E i \in Inst :
    /\ lastSettled[i].op = "optimisticUpdate"
    /\ lastSettled[i].status = "resolved"
    /\ Len(db.versions) >= 2
    /\ \A n \in DOMAIN db.versions : db.versions[n].data # "v1"
    /\ db.secret.annotations.updated_at # Absent
    /\ db.secret.annotations.locked_at = Absent
    /\ db.secret.annotations.foo = "bar"

\* nothing but the instance of caller c has ever used the secret
OnlyWriter(c) == \A d \in Calls : InstOf(d) # InstOf(c) => op[d] = "none"

\* C20: while one instance is the only writer, none of its optimisticUpdate()
\* calls fails with PreconditionFailed or ConcurrentModification: a call whose
\* producer returns a string resolves, and the version it added is the last
\* of the secret.
C20_InstanceReusable ==
  [][\A c \in Calls :
       /\ OnlyWriter(c)
       /\ op[c] = "optimisticUpdate" /\ pc[c] # "idle" /\ pc'[c] = "idle"
       => /\ lastSettled'[InstOf(c)].by = c
          /\ lastSettled'[InstOf(c)].error \in {"none", "ProducerError", "TypeError"}
          /\ lastSettled'[InstOf(c)].error = loc[c].err
          /\ loc[c].secretData.kind = "string" =>
               /\ lastSettled'[InstOf(c)].status = "resolved"
               /\ loc[c].newVersion = Len(db'.versions)
               /\ db'.secret.annotations.locked_at = Absent]_vars

\* C20 witness: three optimisticUpdate() calls in a row on the only instance
\* in use have resolved, each having added a version to a secret that had
\* none.
C20_Witness ==
  /\ op["b1"] = "none"
  /\ calls = MaxCalls
  /\ lastSettled["A"].op = "optimisticUpdate"
  /\ lastSettled["A"].status = "resolved"
  /\ Len(db.versions) = MaxCalls
  /\ \A n \in DOMAIN db.versions : db.versions[n].data # "v1"
  /\ pc["a1"] = "idle"

\* ---- claims about the cache ------------------------------------------------
\* C21: getLatestVersion(throwOnNotFound) and getLatestData(throwOnNotFound)
\* return null when the store answers NOT_FOUND and the flag is false or
\* omitted, throw the NOT_FOUND error when the flag is true, and throw every
\* other error of the store whatever the flag; a found version is returned.
C21_NotFoundIsNullUnlessAsked ==
  LET d == cache.direct IN
  d.which # "none" =>
    /\ (d.answer = "NotFound" /\ ~d.flag) => (d.kind = "null" /\ d.error = "none")
    /\ (d.answer = "NotFound" /\ d.flag) => (d.kind = "throw" /\ d.error = "NotFound")
    /\ d.answer = "Unavailable" => (d.kind = "throw" /\ d.error = "Unavailable")
    /\ d.answer = "none" => d.kind = "value"

\* C21 witness: getLatestData(true) was called on a secret without versions
\* and threw NOT_FOUND.
C21_Witness ==
  /\ cache.direct.which = "getLatestData"
  /\ cache.direct.flag
  /\ cache.direct.answer = "NotFound"
  /\ cache.direct.kind = "throw"
  /\ Len(db.versions) = 0

\* versions the refresh in flight has added itself
OwnAdds ==
  Len(db.versions) - cache.fetch.len0 - (cache.foreignAdds - cache.fetch.adds0)

\* C22: get/update calls for the key issued while a refresh is in flight start
\* no second refresh and await the promise of the one in flight, every caller
\* awaiting one promise receives the same entry object, and during the cycle
\* the refresh function is invoked at most once and at most one version is
\* added.
C22_OneRefreshPerCycle ==
  /\ [](/\ \A g \in Getters, h \in Getters :
             /\ cache.results[g].state = "resolved"
             /\ cache.results[h].state = "resolved"
             /\ cache.results[g].promise # 0
             /\ cache.results[g].promise = cache.results[h].promise
             => cache.results[g].entry = cache.results[h].entry
        /\ cache.fetch.running => OwnAdds \in {0, 1})
  /\ [][/\ \A g \in Getters :
             (CacheGet(g) \/ CacheUpdate(g)) /\ cache.fetch.running
             => /\ cache'.fetch = cache.fetch
                /\ cache'.refreshes = cache.refreshes
                /\ cache'.results[g].state = "waiting"
                /\ cache'.results[g].promise = cache.fetch.id
        /\ Producer(CacheCaller)
           => /\ cache.fetch.running /\ cache.fetch.phase = "rotate"
              /\ OwnAdds = 0]_vars

\* C22 witness: update() and a get() issued while its refresh was in flight
\* have resolved with the same entry object, the refresh having rotated a
\* secret that had no version.
C22_Witness ==
  /\ cache.results["g1"].state = "resolved" /\ cache.results["g1"].op = "update"
  /\ cache.results["g2"].state = "resolved" /\ cache.results["g2"].op = "get"
  /\ cache.results["g2"].joined
  /\ cache.results["g1"].promise = cache.results["g2"].promise
  /\ cache.results["g1"].entry = cache.results["g2"].entry
  /\ cache.settled.id = cache.results["g1"].promise
  /\ cache.foreignAdds = 0
  /\ Len(db.versions) = 1
  /\ cache.entries[cache.results["g1"].entry].value = "p"

\* C23: when a forced update of a cached entry fails, every caller awaiting it
\* is rejected with the error, the entry stays under the key with the value
\* it had before, and a get() that follows resolves with an entry of that
\* value.
C23_FailedUpdateKeepsValue ==
  [][/\ ( /\ cache.fetch.running
          /\ cache.fetch.stale # "none"
          /\ cache'.settled.id = cache.fetch.id
          /\ cache'.settled.status = "rejected" )
        => /\ \A g \in Getters :
                cache.results[g].state = "waiting"
                => /\ cache'.results[g].state = "rejected"
                   /\ cache'.results[g].error = cache'.settled.error
                   /\ cache'.results[g].error # "none"
           /\ cache'.slot = cache.fetch.stale
           /\ cache'.entries[cache.fetch.stale].value = cache.fetch.before.value
     /\ \A g \in Getters :
          ( /\ CacheGet(g)
            /\ ~cache.fetch.running
            /\ cache.settled.status = "rejected"
            /\ cache.settled.stale # "none" )
          => /\ cache'.results[g].state = "resolved"
             /\ cache'.results[g].entry = cache.settled.stale
             /\ cache'.entries[cache'.results[g].entry].value
                  = cache.settled.before.value]_vars

\* C23 witness: update() was rejected with the error thrown by the refresh
\* function, and the get() called after that resolved with the entry holding
\* the initial value.
C23_Witness ==
  /\ cache.results["g1"].state = "rejected" /\ cache.results["g1"].op = "update"
  /\ cache.results["g1"].error = "ProducerError"
  /\ cache.settled.status = "rejected"
  /\ cache.settled.id = cache.results["g1"].promise
  /\ cache.results["g2"].state = "resolved" /\ cache.results["g2"].op = "get"
  /\ cache.results["g2"].after = cache.settled.id
  /\ cache.entries[cache.results["g2"].entry].value = "v1"

\* the object a running refresh updates has a refresh function, a value and
\* a known versionName
KnowsVersion(e) ==
  /\ cache.fetch.running /\ cache.fetch.phase = "getLatestData"
  /\ cache.fetch.obj = e
  /\ cache.entries[e].updateMethod
  /\ cache.entries[e].value # NoValue
  /\ cache.entries[e].versionName # 0

\* C24: a refresh of an entry with a refresh function and a known versionName
\* adopts the store's latest payload and name, without running the refresh
\* function or writing, whenever the latest version has a higher ordinal than
\* versionName; otherwise it rotates, and the entry it yields carries the
\* name of the version created.
C24_AdoptsMoreRecentVersion ==
  [][\A e \in Entries :
       /\ ( LatestDataAnswered(FALSE) /\ KnowsVersion(e)
            /\ Len(db.versions) > cache.entries[e].versionName )
          => /\ cache'.settled.status = "resolved"
             /\ cache'.settled.id = cache.fetch.id
             /\ cache'.entries[cache'.slot].versionName = Len(db.versions)
             /\ cache'.entries[cache'.slot].value = AccessSecretVersion(db).data
             /\ pc' = pc /\ db' = db
       /\ ( LatestDataAnswered(FALSE) /\ KnowsVersion(e)
            /\ Len(db.versions) <= cache.entries[e].versionName )
          => /\ cache'.fetch.phase = "rotate"
             /\ pc'[CacheCaller] # "idle"
       /\ ( /\ RotateSettled /\ cache.fetch.obj = e
            /\ lastSettled[CacheInst].status = "resolved" )
          => /\ cache'.entries[cache'.slot].versionName
                  = updatedVersionName[CacheInst]
             /\ updatedVersionName[CacheInst] \in DOMAIN db.versions
             /\ cache'.entries[cache'.slot].value
                  = db.versions[updatedVersionName[CacheInst]].data]_vars

C26_FirstRefreshAdoptsOrMints ==
  [][\A e \in Entries :
       /\ ( /\ LatestDataAnswered(FALSE)
            /\ cache.fetch.obj = e /\ cache.fetch.stale = e
            /\ HasNoValue(cache.entries[e]) )
          => IF Len(db.versions) > 0
             THEN /\ cache'.settled.status = "resolved"
                  /\ cache'.settled.id = cache.fetch.id
                  /\ cache'.entries[cache'.slot].value = AccessSecretVersion(db).data
                  /\ cache'.entries[cache'.slot].versionName = Len(db.versions)
                  /\ pc' = pc /\ db' = db
             ELSE /\ cache'.fetch.phase = "rotate"
                  /\ pc'[CacheCaller] # "idle"
       /\ ( /\ RotateSettled
            /\ cache.fetch.stale = e
            /\ HasNoValue(cache.fetch.before)
            /\ lastSettled[CacheInst].status = "resolved" )
          => /\ cache'.entries[cache'.slot].versionName
                  = updatedVersionName[CacheInst]
             /\ cache'.entries[cache'.slot].value
                  = lastSettled[CacheInst].data.data
             /\ cache.foreignAdds = 0
                => /\ cache'.entries[cache'.slot].versionName = 1
                   /\ Len(db.versions) = 1]_vars

\* C26 witness: set() without an initial value and with a refresh function on
\* a secret without versions; the refresh rotated and the entry under the key
\* holds the produced value as version 1.
C26_Witness ==
  /\ cache.settled.status = "resolved"
  /\ cache.settled.id = 1
  /\ HasNoValue(cache.settled.before)
  /\ cache.slot = cache.settled.entry
  /\ cache.entries[cache.slot].value = "p"
  /\ cache.entries[cache.slot].versionName = 1
  /\ Len(db.versions) = 1
  /\ calls = 0

\* the key was set without an initial value and without a refresh function,
\* and the secret has no version
SetEmptyOnEmptySecret ==
  /\ cache.registered
  /\ cache.slot # "none"
  /\ ~cache.entries[cache.slot].updateMethod
  /\ cache.entries[cache.slot].value = NoValue
  /\ Len(db.versions) = 0

\* C27: for a key set with no initial value and no refresh function on a
\* secret without versions, get() is never rejected when the store answers:
\* it resolves with an entry whose value is absent.
C27_EmptyEntryResolves ==
  [][\A g \in Getters :
       /\ ( SetEmptyOnEmptySecret /\ CacheGet(g) /\ ~cache.fetch.running )
          => /\ cache'.results[g].state = "resolved"
             /\ cache'.entries[cache'.results[g].entry].value = NoValue
       /\ ( /\ SetEmptyOnEmptySecret
            /\ LatestDataAnswered(FALSE)
            /\ cache.results[g].op = "get"
            /\ cache.results[g].state = "waiting" )
          => /\ cache'.results[g].state = "resolved"
             /\ cache'.entries[cache'.results[g].entry].value = NoValue]_vars

\* this.value && !this.updateMethod
ReadOnlyWithValue(e) == ~e.updateMethod /\ e.value # NoValue

\* C28: for a key set with an initial value and no refresh function on a
\* secret that has a version, update() resolves with an entry holding the
\* value and name of the store's latest version, and a get() that follows
\* resolves with that entry.
C28_UpdateReadsLatest ==
  [][\A g \in Getters :
       /\ ( /\ LatestDataAnswered(FALSE)
            /\ cache.fetch.stale # "none"
            /\ ReadOnlyWithValue(cache.fetch.before)
            /\ Len(db.versions) > 0
            /\ cache.results[g].op = "update"
            /\ cache.results[g].state = "waiting" )
          => /\ cache'.results[g].state = "resolved"
             /\ cache'.entries[cache'.results[g].entry].value
                  = db.versions[Len(db.versions)].data
             /\ cache'.entries[cache'.results[g].entry].versionName
                  = Len(db.versions)
       /\ ( /\ CacheGet(g)
            /\ ~cache.fetch.running
            /\ cache.settled.status = "resolved"
            /\ cache.settled.stale # "none"
            /\ ReadOnlyWithValue(cache.settled.before) )
          => /\ cache'.results[g].state = "resolved"
             /\ cache'.results[g].entry = cache.settled.entry
             /\ cache'.entries[cache.settled.entry] = cache.entries[cache.settled.entry]]_vars

\* C28 witness: the key was set with "x" and no refresh function; update()
\* resolved with the store's latest value and name, and the get() called
\* after it resolved with the same entry.
C28_Witness ==
  /\ cache.settled.status = "resolved"
  /\ ReadOnlyWithValue(cache.settled.before)
  /\ cache.settled.before.value = "x"
  /\ cache.results["g1"].state = "resolved" /\ cache.results["g1"].op = "update"
  /\ cache.results["g1"].promise = cache.settled.id
  /\ cache.results["g2"].state = "resolved" /\ cache.results["g2"].op = "get"
  /\ cache.results["g2"].after = cache.settled.id
  /\ cache.results["g2"].entry = cache.results["g1"].entry
  /\ cache.entries[cache.results["g2"].entry].value = "v1"
  /\ cache.entries[cache.results["g2"].entry].versionName = ManyVersions

\* C29: a refresh never mutates the entry it starts from: while it runs and
\* after it has settled, successfully or not, the object it started from has
\* the value and versionName it had before, and a successful refresh yields
\* another object.
C29_RefreshCopies ==
  /\ ( cache.fetch.running /\ cache.fetch.stale # "none" )
     => cache.entries[cache.fetch.stale] = cache.fetch.before
  /\ cache.settled.stale # "none"
     => /\ cache.entries[cache.settled.stale].value = cache.settled.before.value
        /\ cache.entries[cache.settled.stale].versionName
             = cache.settled.before.versionName
        /\ cache.settled.status = "resolved"
           => cache.settled.entry # cache.settled.stale

\* C30: a refresh of an entry without a refresh function only reads the
\* store: while it runs its object never enters optimisticUpdate, and the
\* answer of getLatestData ends it, whatever the entry holds and whatever the
\* store answers, without a write to the secret or its versions.
C30_ReadOnlyRefresh ==
  /\ []( ( cache.fetch.running /\ ~cache.entries[cache.fetch.obj].updateMethod )
         => /\ cache.fetch.phase = "getLatestData"
            /\ pc[CacheCaller] = "idle"
            /\ ~IsSet(secret[CacheInst]) )
  /\ [][\A fault \in BOOLEAN :
          ( /\ LatestDataAnswered(fault)
            /\ ~cache.entries[cache.fetch.obj].updateMethod )
          => /\ db' = db
             /\ pc' = pc /\ secret' = secret /\ pendingSecret' = pendingSecret
             /\ ~cache'.fetch.running]_vars

\* C30 witness: an entry without refresh function that already knew its
\* version was refreshed after another writer added a version: it holds that
\* writer's value, and the secret itself was never written.
C30_Witness ==
  /\ cache.settled.status = "resolved"
  /\ cache.settled.stale # "none"
  /\ ~cache.settled.before.updateMethod
  /\ cache.settled.before.versionName # 0
  /\ cache.entries[cache.settled.entry].value = "f"
  /\ db.secret.etag = 1

\* ---- claims about the order and the effects of rotate -----------------------
\* C33: within optimisticUpdate the latest version is read before the
\* producer is invoked: when getLatestVersion() is answered the producer has
\* not returned anything yet, so the version destroyed later is the one that
\* was the latest before the producer started.
C33_LatestReadBeforeProducer ==
  [][\A c \in Calls :
       LatestVersionRead(c) => loc[c].secretData = NoData]_vars

\* ---- one instance on secrets whose latest version is in every state --------
\* the states a latest version can be in before optimisticUpdate is called:
\* enabled, disabled by hand, destroyed, scheduled for destruction
LatestVersionStates ==
  {[state |-> "ENABLED", scheduledDestroyTime |-> FALSE, data |-> "v1"],
   [state |-> "DISABLED", scheduledDestroyTime |-> FALSE, data |-> "v1"],
   [state |-> "DESTROYED", scheduledDestroyTime |-> FALSE, data |-> "v1"],
   [state |-> "DISABLED", scheduledDestroyTime |-> TRUE, data |-> "v1"]}

InitVersions ==
  /\ db \in {[secret |-> [etag |-> 1, annotations |-> NoAnnotations,
                          versionDestroyTtl |-> t],
              versions |-> vs] :
               t \in BOOLEAN, vs \in {<<>>} \cup {<<v>> : v \in LatestVersionStates}}
  /\ now = 0
  /\ secret = [i \in Inst |-> NoSecret]
  /\ pendingSecret = [i \in Inst |-> NoPromise]
  /\ updatedVersionName = [i \in Inst |-> 0]
  /\ callers = {"a1"}
  /\ pc = [c \in Calls |-> "idle"]
  /\ op = [c \in Calls |-> "none"]
  /\ loc = [c \in Calls |-> NoLoc]
  /\ lastSettled = [i \in Inst |-> NoOutcome]
  /\ wonEtags = {}
  /\ calls = 0
  /\ cache = NoCache

SpecVersions == InitVersions /\ [][Next]_vars

\* C34: optimisticUpdate requests the destruction of the version it read as
\* latest exactly when there was one, its state was not DESTROYED and it had
\* no scheduled destroy time; the request is accepted, and on a secret that
\* only this instance writes a call whose producer returned a string
\* resolves whatever the state of the latest version, or without any.
C34_DestroysOnlyLiveVersion ==
  [][\A c \in Calls :
       /\ VersionAdded(c)
          => ( pc'[c] = "destroySecretVersion"
               <=> /\ loc[c].latestVersion.name # 0
                   /\ loc[c].latestVersion.state # "DESTROYED"
                   /\ ~loc[c].latestVersion.scheduledDestroyTime )
       /\ ( VersionAdded(c) /\ pc'[c] # "destroySecretVersion" )
          => pc'[c] = "update"
       /\ ( VersionDestroyed(c) /\ OnlyWriter(c) )
          => /\ pc'[c] = "update"
             /\ db'.versions[loc[c].latestVersion.name].state \in {"DISABLED", "DESTROYED"}
       /\ ( /\ OnlyWriter(c)
            /\ op[c] = "optimisticUpdate" /\ pc[c] # "idle" /\ pc'[c] = "idle"
            /\ loc[c].secretData.kind = "string" )
          => lastSettled'[InstOf(c)].status = "resolved"]_vars

\* C34 witness: optimisticUpdate resolved on a secret whose only version was
\* destroyed before: the version is still destroyed and a second one exists.
C34_Witness ==
  /\ lastSettled["A"].op = "optimisticUpdate"
  /\ lastSettled["A"].status = "resolved"
  /\ Len(db.versions) = 2
  /\ db.versions[1].state = "DESTROYED"
  /\ db.versions[1].data = "v1"
  /\ db.secret.versionDestroyTtl
  /\ db.versions[2].state = "ENABLED"

\* C37: when optimisticUpdate rejects, whatever the reason, the versions of
\* the store are those of before the call: the call has added no version
\* (and so has destroyed no predecessor).
C37_FailedRotateAddsNothing ==
  [][\A c \in Calls :
       ( /\ op[c] = "optimisticUpdate" /\ pc[c] # "idle" /\ pc'[c] = "idle"
         /\ lastSettled'[InstOf(c)].status = "rejected" )
       => loc[c].newVersion = 0]_vars

\* two callers share one ConcurrentSecret while the clock stands still
NextShared ==
  \/ \E c \in Calls : CallLock(c)
  \/ \E c \in Calls : CallUnlock(c)
  \/ \E c \in Calls : CallOptimisticUpdate(c)
  \/ \E c \in Calls : GetSecretAnswered(c)
  \/ \E c \in Calls : LockCheck(c)
  \/ \E c \in Calls : LockUpdated(c)
  \/ \E c \in Calls : Producer(c)
  \/ \E c \in Calls : LatestVersionRead(c)
  \/ \E c \in Calls : VersionAdded(c)
  \/ \E c \in Calls : VersionDestroyed(c)
  \/ \E c \in Calls : SecretUpdated(c)
  \/ \E c \in Calls : Unlocked(c)

SpecShared == InitSameInstance /\ [][NextShared]_vars

\* C39: two metadata reads requested on one instance with no release in
\* between share one pending result: a request made while the instance has a
\* pending read creates no new read and awaits the existing one, and two
\* callers awaiting the same read see the same result when it arrives.
C39_PrepareSharesPendingRead ==
  [][/\ \A c \in Calls :
          ( /\ pc[c] = "idle" /\ pc'[c] = "prepare"
            /\ pendingSecret[InstOf(c)].state # "none" )
          => /\ pendingSecret' = pendingSecret
             /\ loc'[c].promise = pendingSecret[InstOf(c)]
     /\ \A c, d \in Calls :
          ( /\ InstOf(c) = InstOf(d)
            /\ pc[c] = "prepare" /\ pc'[c] = "prepare"
            /\ pc[d] = "prepare" /\ pc'[d] = "prepare"
            /\ loc[c].promise = loc[d].promise )
          => loc'[c].promise = loc'[d].promise]_vars

C39_Witness ==
  /\ pc["a1"] = "prepare" /\ pc["a2"] = "prepare"
  /\ loc["a1"].promise.state = "resolved"
  /\ loc["a1"].promise.by = "a1"
  /\ IsSet(loc["a1"].promise.secret)
  /\ loc["a2"].promise = loc["a1"].promise
  /\ pendingSecret["A"] = loc["a1"].promise

\* the store answers the read of a fetch started by get(name) on a key that
\* was never registered with set
UnregisteredMissAnswered ==
  /\ LatestDataAnswered(FALSE)
  /\ ~cache.registered
  /\ cache.fetch.stale = "none"

\* C32: get(name) for a key never registered with set reads the store's
\* latest version and caches an entry with that value; if the secret has no
\* latest version the call rejects with NotFound and no entry is cached.
C32_UnregisteredGetReadsLatest ==
  [][UnregisteredMissAnswered =>
       LET ans == AccessSecretVersion(db)
           e == cache.fetch.obj
           waiters == {g \in Getters : /\ cache.results[g].state = "waiting"
                                       /\ cache.results[g].promise = cache.fetch.id}
       IN /\ ~cache'.fetch.running
          /\ db' = db
          /\ IF ans.error = "none"
             THEN /\ cache'.slot = e
                  /\ cache'.entries[e].value = ans.data
                  /\ cache'.entries[e].versionName = ans.name
                  /\ \A g \in waiters : /\ cache'.results[g].state = "resolved"
                                        /\ cache'.results[g].entry = e
             ELSE /\ ans.error = "NotFound"
                  /\ cache'.slot = "none"
                  /\ \A g \in waiters : /\ cache'.results[g].state = "rejected"
                                        /\ cache'.results[g].error = "NotFound"]_vars

C32_Witness ==
  /\ ~cache.registered
  /\ cache.results["g1"].state = "rejected" /\ cache.results["g1"].op = "get"
  /\ cache.results["g1"].error = "NotFound"
  /\ cache.results["g2"].state = "resolved" /\ cache.results["g2"].op = "get"
  /\ cache.results["g2"].after = cache.results["g1"].promise
  /\ cache.slot = cache.results["g2"].entry
  /\ cache.entries[cache.slot].value = "f"
  /\ cache.entries[cache.slot].versionName = Len(db.versions)

\* a refresh of the cache resolves in this step
RefreshResolves ==
  /\ cache.fetch.running
  /\ ~cache'.fetch.running
  /\ cache'.settled.status = "resolved"

\* C35: after every successful refresh, through any sequence of get/update
\* calls and out-of-band version additions, the resulting entry's versionName
\* names a version of the store whose payload equals the entry's value.
C35_VersionNameMatchesValue ==
  [][RefreshResolves =>
       LET e == cache'.entries[cache'.settled.entry] IN
       /\ cache'.slot = cache'.settled.entry
       /\ e.versionName \in 1..Len(db'.versions)
       /\ db'.versions[e.versionName].data = e.value]_vars

C35_Witness ==
  /\ cache.settled.status = "resolved"
  /\ cache.settled.stale # "none"
  /\ cache.settled.before.versionName # 0
  /\ cache.foreignAdds > 0
  /\ lastSettled[CacheInst] = NoOutcome
  /\ cache.slot = cache.settled.entry
  /\ cache.entries[cache.slot].versionName = Len(db.versions)
  /\ cache.entries[cache.slot].value = "p"
  /\ db.versions[Len(db.versions)].data = "p"

\* C36: the entry a refresh through the cache produces for a key registered
\* by set is a new object that keeps the refresh function of the entry it
\* replaces and carries the value and versionName that refresh reached, so
\* every later refresh still uses the refresh function given to set.
C36_CloneKeepsConfiguration ==
  [][(RefreshResolves /\ cache.fetch.stale # "none") =>
       LET old == cache.fetch.stale
           new == cache'.slot
       IN /\ new = cache'.settled.entry
          /\ new # old
          /\ ~cache.entries[new].alloc
          /\ cache'.entries[new].updateMethod = cache.fetch.before.updateMethod
          /\ cache'.entries[new].versionName = cache'.entries[old].versionName
          /\ cache'.entries[new].value = cache'.entries[old].value]_vars

C36_Witness ==
  /\ cache.registered
  /\ cache.settled.status = "resolved"
  /\ cache.settled.id = 2
  /\ cache.settled.stale = "E2"
  /\ cache.slot = "E3"
  /\ cache.entries["E1"].updateMethod
  /\ cache.entries["E3"].updateMethod
  /\ cache.entries["E3"].versionName = Len(db.versions)
  /\ cache.entries["E3"].value = "p"

\* the process that took the lock with ForeignLock releases it: unlock() of
\* its ConcurrentSecret removes locked_at
ForeignRelease ==
  /\ db.secret.annotations.locked_at # Absent
  /\ ~(IsSet(secret[CacheInst])
       /\ secret[CacheInst].annotations.locked_at # Absent)
  /\ pc[CacheCaller] # "unlock"
  /\ db.secret.etag < MaxForeignEtag
  /\ db' = UpdateSecret(db, UnlockRequest(Snapshot(db))).db
  /\ UNCHANGED <<now, secret, pendingSecret, updatedVersionName, callers,
                 pc, op, loc, lastSettled, wonEtags, calls, cache>>

\* the cache of SpecCache next to a process that takes and releases the lock
NextRetry ==
  \/ NextCache
  \/ ForeignRelease

SpecRetry == InitCache /\ [][NextRetry]_vars

\* the errors of a lock() that did not get the lock
LockErrors == {"ConcurrentModification", "PreconditionFailed"}

\* the refresh that settled last failed because the lock was not acquired
LastRefreshLostLock ==
  /\ cache.settled.status = "rejected"
  /\ cache.settled.error \in LockErrors
  /\ cache.settled.id = cache.fetch.id - 1
  /\ cache.settled.stale = cache.fetch.stale

\* the running refresh began when nobody held the lock, and nobody has
\* written the secret since
HolderGone ==
  /\ cache.fetch.lockedAt0 = Absent
  /\ cache.fetch.etag0 = db.secret.etag

\* C38: after a refresh of a key failed because the lock could not be
\* acquired, an update(name) made once the other holder has released, with
\* no other writer interfering, does not fail on the lock again.
C38_RetryAfterLostLockSucceeds ==
  [][( /\ cache.fetch.running /\ cache.fetch.phase = "rotate"
       /\ LastRefreshLostLock
       /\ HolderGone
       /\ LockCheck(CacheCaller) \/ LockUpdated(CacheCaller) )
     => ~( /\ pc'[CacheCaller] = "idle"
           /\ lastSettled'[CacheInst].status = "rejected"
           /\ lastSettled'[CacheInst].error \in LockErrors )]_vars

\* a SecretsCache constructed with or without a ttl in its cache options
InitTtl ==
  /\ db \in {[secret |-> [etag |-> 1, annotations |-> NoAnnotations,
                          versionDestroyTtl |-> TRUE],
              versions |-> vs] : vs \in CacheVersions}
  /\ now = 0
  /\ secret = [i \in Inst |-> NoSecret]
  /\ pendingSecret = [i \in Inst |-> NoPromise]
  /\ updatedVersionName = [i \in Inst |-> 0]
  /\ callers = {}
  /\ pc = [c \in Calls |-> "idle"]
  /\ op = [c \in Calls |-> "none"]
  /\ loc = [c \in Calls |-> NoLoc]
  /\ lastSettled = [i \in Inst |-> NoOutcome]
  /\ wonEtags = {}
  /\ calls = 0
  /\ \E t \in {NoTtl, "cacheOptions.ttl"} :
       cache = [NoCache EXCEPT !.defaultTtl = t]

\* the cache with entries that expire
NextTtl ==
  \/ \E v \in InitialValues, u \in BOOLEAN : CacheSet(v, u)
  \/ \E v \in InitialValues, u \in BOOLEAN : CacheSetTtl(v, u)
  \/ \E g \in Getters : CacheGet(g)
  \/ \E g \in Getters : CacheUpdate(g)
  \/ Expire
  \/ \E fault \in BOOLEAN : LatestDataAnswered(fault)
  \/ RotateSettled
  \/ \E c \in Calls : GetSecretAnswered(c)
  \/ \E c \in Calls : LockCheck(c)
  \/ \E c \in Calls : LockUpdated(c)
  \/ \E c \in Calls : Producer(c)
  \/ \E c \in Calls : ProducerTtl(c)
  \/ \E c \in Calls : LatestVersionRead(c)
  \/ \E c \in Calls : VersionAdded(c)
  \/ \E c \in Calls : VersionDestroyed(c)
  \/ \E c \in Calls : SecretUpdated(c)
  \/ \E c \in Calls : Unlocked(c)

SpecTtl == InitTtl /\ [][NextTtl]_vars

\* the key holds an entry and no refresh of it is running
EntryAtRest == cache.slot # "none" /\ ~cache.fetch.running

\* the stored entry has outlived its time to live
Expired == cache.ttl # NoTtl /\ cache.expired

\* the call of g started a refresh of the stored entry, which g awaits
StartsRefresh(g) ==
  /\ cache'.fetch.running
  /\ cache'.fetch.stale = cache.slot
  /\ cache'.refreshes = cache.refreshes + 1
  /\ cache'.results[g].state = "waiting"
  /\ cache'.results[g].promise = cache'.fetch.id

=============================================================================
